---------------------------- MODULE Spec2Model ----------------------------
(***************************************************************************)
(* A model of file-renamer: the rename planner of src/advanced-rules.js    *)
(* (resolveConflict, generateRenamePlan, renameByDate, formatDate) and the *)
(* commands of src/index.js that mutate the directory (batchRename, the    *)
(* rename-date action).                                                    *)
(*                                                                         *)
(* File names, paths and date formats are sequences of one-character       *)
(* strings, so that path.extname, path.basename, String.replace, padStart  *)
(* and the template substitutions are computed character by character as   *)
(* the JavaScript does.  The directory is a function from the paths that   *)
(* exist to the metadata fs.statSync returns for them.                     *)
(***************************************************************************)
EXTENDS Integers, Sequences, FiniteSets, TLC

VARIABLES
  disk,           \* the filesystem: path -> stats, for the paths that exist
  disk0,          \* the filesystem when the command started
  files,          \* the batch of file records {name, path}
  options,        \* the options / rule / arguments of the running operation
  pos,            \* position of the for...of loop in files (1-based)
  pc,             \* control point of the running operation
  plan,           \* generateRenamePlan: the plan under construction
  existingNames,  \* generateRenamePlan: the Set of names admitted so far
  renamed,        \* batchRename / rename-date: the renamed list
  errors,         \* batchRename / rename-date: the errors list
  ret             \* the value returned by the last call of a pure function

vars == <<disk, disk0, files, options, pos, pc, plan, existingNames, renamed, errors, ret>>

(***************************************************************************)
(* Bounds of the model.                                                    *)
(***************************************************************************)
MaxFiles == 3

(***************************************************************************)
(* Strings.                                                                *)
(***************************************************************************)
Range(s) == {s[k] : k \in 1..Len(s)}

SeqsUpTo(S, n) == UNION {[1..k -> S] : k \in 0..n}

\* s.startsWith(p, i - 1): p occurs in s at the 1-based position i
MatchesAt(s, p, i) ==
  /\ i >= 1
  /\ i + Len(p) - 1 <= Len(s)
  /\ \A k \in 1..Len(p) : s[i + k - 1] = p[k]

\* s.indexOf(p) + 1: the first position where p occurs in s, 0 if none
IndexOf(s, p) ==
  IF \E i \in 1..(Len(s) + 1) : MatchesAt(s, p, i)
  THEN CHOOSE i \in 1..(Len(s) + 1) :
         /\ MatchesAt(s, p, i)
         /\ \A j \in 1..(i - 1) : ~MatchesAt(s, p, j)
  ELSE 0

\* s.lastIndexOf(c) + 1 for a single character c
LastIndexOfChar(s, c) ==
  IF \E i \in 1..Len(s) : s[i] = c
  THEN CHOOSE i \in 1..Len(s) : s[i] = c /\ \A j \in (i + 1)..Len(s) : s[j] # c
  ELSE 0

\* s.replace(p, r) with a string pattern: the first occurrence only
ReplaceFirst(s, p, r) ==
  LET i == IndexOf(s, p) IN
  IF i = 0 THEN s
  ELSE SubSeq(s, 1, i - 1) \o r \o SubSeq(s, i + Len(p), Len(s))

Digit(d) == <<"0", "1", "2", "3", "4", "5", "6", "7", "8", "9">>[d + 1]

\* String(n) for a non-negative integer
RECURSIVE ToStr(_)
ToStr(n) == IF n < 10 THEN <<Digit(n)>> ELSE ToStr(n \div 10) \o <<Digit(n % 10)>>

\* s.padStart(width, c) for a single character c
RECURSIVE PadStart(_, _, _)
PadStart(s, width, c) == IF Len(s) >= width THEN s ELSE PadStart(<<c>> \o s, width, c)

\* s.slice(-n)
SliceLast(s, n) == IF Len(s) <= n THEN s ELSE SubSeq(s, Len(s) - n + 1, Len(s))

\* s.split(c) for a single character c
RECURSIVE Split(_, _)
Split(s, c) ==
  LET i == IndexOf(s, <<c>>) IN
  IF i = 0 THEN <<s>>
  ELSE <<SubSeq(s, 1, i - 1)>> \o Split(SubSeq(s, i + 1, Len(s)), c)

IsDigit(c) == c \in Range(<<"0", "1", "2", "3", "4", "5", "6", "7", "8", "9">>)

DigitValue(c) == CHOOSE d \in 0..9 : Digit(d) = c

\* the number written by the leading digits of s, after the value acc
RECURSIVE ParseDigits(_, _)
ParseDigits(s, acc) ==
  IF s = <<>> \/ ~IsDigit(Head(s)) THEN acc
  ELSE ParseDigits(Tail(s), 10 * acc + DigitValue(Head(s)))

\* parseInt(parts[k]) || default, for unsigned text: the default stands for
\* NaN (no part, no leading digit) and for 0
parseIntOr(parts, k, default) ==
  IF k > Len(parts) \/ parts[k] = <<>> \/ ~IsDigit(Head(parts[k])) THEN default
  ELSE IF ParseDigits(parts[k], 0) = 0 THEN default
  ELSE ParseDigits(parts[k], 0)

LowerLetters == <<"a", "b", "c", "d", "e", "f", "g", "h", "i", "j", "k", "l", "m",
                  "n", "o", "p", "q", "r", "s", "t", "u", "v", "w", "x", "y", "z">>
UpperLetters == <<"A", "B", "C", "D", "E", "F", "G", "H", "I", "J", "K", "L", "M",
                  "N", "O", "P", "Q", "R", "S", "T", "U", "V", "W", "X", "Y", "Z">>

\* the letter c in the other case
UpperCharSwap(c) ==
  IF c \in Range(LowerLetters)
  THEN UpperLetters[CHOOSE k \in 1..Len(LowerLetters) : LowerLetters[k] = c]
  ELSE IF c \in Range(UpperLetters)
  THEN LowerLetters[CHOOSE k \in 1..Len(UpperLetters) : UpperLetters[k] = c]
  ELSE c

UpperChar(c) ==
  IF c \in Range(LowerLetters)
  THEN UpperLetters[CHOOSE k \in 1..Len(LowerLetters) : LowerLetters[k] = c]
  ELSE c

LowerChar(c) ==
  IF c \in Range(UpperLetters)
  THEN LowerLetters[CHOOSE k \in 1..Len(UpperLetters) : UpperLetters[k] = c]
  ELSE c

toUpperCase(s) == [k \in 1..Len(s) |-> UpperChar(s[k])]
toLowerCase(s) == [k \in 1..Len(s) |-> LowerChar(s[k])]

\* the classes \w and \s of a regular expression
IsWordChar(c) == c \in Range(LowerLetters) \cup Range(UpperLetters) \/ IsDigit(c) \/ c = "_"
IsSpace(c) == c = " "

(***************************************************************************)
(* Node's path module (posix), on paths without "." or ".." segments.      *)
(***************************************************************************)
\* the last segment of a path
LastSegment(p) == SubSeq(p, LastIndexOfChar(p, "/") + 1, Len(p))

\* path.extname: from the last "." of the last segment, unless that "." is
\* the segment's first character or there is none
extname(p) ==
  LET seg == LastSegment(p)
      dot == LastIndexOfChar(seg, ".")
  IN IF dot <= 1 THEN <<>> ELSE SubSeq(seg, dot, Len(seg))

\* path.basename(p, ext): the last segment, without ext when it ends with
\* ext and is not ext itself
basename(p, ext) ==
  LET seg == LastSegment(p) IN
  IF /\ Len(ext) > 0
     /\ Len(seg) > Len(ext)
     /\ SubSeq(seg, Len(seg) - Len(ext) + 1, Len(seg)) = ext
  THEN SubSeq(seg, 1, Len(seg) - Len(ext))
  ELSE seg

\* path.dirname of a path "dir/name"
dirname(p) ==
  LET slash == LastIndexOfChar(p, "/") IN
  IF slash = 0 THEN <<".">>
  ELSE IF slash = 1 THEN <<"/">>
  ELSE SubSeq(p, 1, slash - 1)

\* path.join(dir, name) for a plain name
join(dir, name) == dir \o <<"/">> \o name

(***************************************************************************)
(* Regular expressions: the patterns used are made of literal characters   *)
(* and ".", which matches any character; a pattern containing an unclosed  *)
(* "(" does not compile (new RegExp throws a SyntaxError).                 *)
(***************************************************************************)
RegExpThrows(pattern) == "(" \in Range(pattern)

RegexMatchesAt(s, pattern, i) ==
  /\ i >= 1
  /\ i + Len(pattern) - 1 <= Len(s)
  /\ \A k \in 1..Len(pattern) : pattern[k] = "." \/ s[i + k - 1] = pattern[k]

\* s.replace(new RegExp(pattern, 'g'), replacement) from position i on:
\* leftmost matches, not overlapping
RECURSIVE RegexReplaceFrom(_, _, _, _)
RegexReplaceFrom(s, pattern, replacement, i) ==
  IF i > Len(s)
  THEN IF Len(pattern) = 0 THEN replacement ELSE <<>>
  ELSE IF Len(pattern) = 0
  THEN replacement \o <<s[i]>> \o RegexReplaceFrom(s, pattern, replacement, i + 1)
  ELSE IF RegexMatchesAt(s, pattern, i)
  THEN replacement \o RegexReplaceFrom(s, pattern, replacement, i + Len(pattern))
  ELSE <<s[i]>> \o RegexReplaceFrom(s, pattern, replacement, i + 1)

RegexReplaceAll(s, pattern, replacement) == RegexReplaceFrom(s, pattern, replacement, 1)

\* regexReplace(filename, patterns): patterns is the sequence of
\* Object.entries(patterns); a pattern that does not compile is skipped
RECURSIVE regexReplace(_, _)
regexReplace(filename, patterns) ==
  IF patterns = <<>> THEN filename
  ELSE LET pattern == Head(patterns)[1]
           replacement == Head(patterns)[2]
           result == IF RegExpThrows(pattern) THEN filename
                     ELSE RegexReplaceAll(filename, pattern, replacement)
       IN regexReplace(result, Tail(patterns))

(***************************************************************************)
(* Dates.  A Date is the tuple of its timestamp and its local fields:      *)
(* <<time, year, month (0-based), day, hours, minutes, seconds>>.          *)
(***************************************************************************)
getTime(date) == date[1]
getFullYear(date) == date[2]
getMonth(date) == date[3]
getDate(date) == date[4]
getHours(date) == date[5]
getMinutes(date) == date[6]
getSeconds(date) == date[7]

\* an option of an options object, or the default of the destructuring /
\* default parameter when the option is absent (undefined)
Opt(o, key, default) == IF key \in DOMAIN o THEN o[key] ELSE default

\* fs.statSync(filePath) throws ENOENT
statThrows(filePath) == filePath \notin DOMAIN disk

\* lines 33-41: the date of the kind dateType in the stats of a file
dateOfStats(stats, dateType) ==
  CASE dateType = "create" -> Opt(stats, "birthtime", stats.mtime)
    [] dateType = "access" -> stats.atime
    [] OTHER -> stats.mtime

getFileDate(filePath, dateType) == dateOfStats(disk[filePath], dateType)

DefaultFormat == <<"Y", "Y", "Y", "Y", "-", "M", "M", "-", "D", "D">>

formatDate(date, format) ==
  LET year == ToStr(getFullYear(date))
      month == PadStart(ToStr(getMonth(date) + 1), 2, "0")
      day == PadStart(ToStr(getDate(date)), 2, "0")
      hour == PadStart(ToStr(getHours(date)), 2, "0")
      minute == PadStart(ToStr(getMinutes(date)), 2, "0")
      second == PadStart(ToStr(getSeconds(date)), 2, "0")
      r1 == ReplaceFirst(format, <<"Y", "Y", "Y", "Y">>, year)
      r2 == ReplaceFirst(r1, <<"Y", "Y">>, SliceLast(year, 2))
      r3 == ReplaceFirst(r2, <<"M", "M">>, month)
      r4 == ReplaceFirst(r3, <<"D", "D">>, day)
      r5 == ReplaceFirst(r4, <<"H", "H">>, hour)
      r6 == ReplaceFirst(r5, <<"m", "m">>, minute)
  IN ReplaceFirst(r6, <<"s", "s">>, second)

\* renameByDate(filename, filePath, options); it throws when getFileDate does
renameByDate(filename, filePath, o) ==
  LET dateType == Opt(o, "dateType", "modify")
      format == Opt(o, "format", DefaultFormat)
      position == Opt(o, "position", "prefix")
      separator == Opt(o, "separator", <<"_">>)
      date == getFileDate(filePath, dateType)
      dateStr == formatDate(date, format)
      ext == extname(filename)
      name == basename(filename, ext)
  IN CASE position = "prefix" -> dateStr \o separator \o name \o ext
       [] position = "suffix" -> name \o separator \o dateStr \o ext
       [] OTHER -> dateStr \o separator \o name \o ext

(***************************************************************************)
(* resolveConflict.                                                        *)
(***************************************************************************)
\* renameLoop with the loop condition dropped: the body runs once
renameLoopOnce(name, ext, names, counter) == counter + 1

\* the do...while loop: the value of counter when the loop ends, entered
\* with the given value of counter
RECURSIVE renameLoop(_, _, _, _)
renameLoop(name, ext, names, counter) ==
  LET newFilename == name \o <<"_">> \o ToStr(counter) \o ext IN
  IF newFilename \in names
  THEN renameLoop(name, ext, names, counter + 1)
  ELSE counter + 1

resolveConflict(filename, names, strategy) ==
  IF filename \notin names
  THEN [filename |-> filename, conflict |-> FALSE, resolved |-> TRUE]
  ELSE IF strategy = "skip"
  THEN [filename |-> filename, conflict |-> TRUE, resolved |-> FALSE]
  ELSE IF strategy = "overwrite"
  THEN [filename |-> filename, conflict |-> TRUE, resolved |-> TRUE]
  ELSE LET ext == extname(filename)
           name == basename(filename, ext)
           counter == renameLoop(name, ext, names, 1)
       IN [filename |-> name \o <<"_">> \o ToStr(counter - 1) \o ext,
           conflict |-> TRUE, resolved |-> TRUE]


(***************************************************************************)
(* generateRenamePlan.                                                     *)
(***************************************************************************)
NoOptions == [k \in {} |-> TRUE]

Strategy(o) == Opt(o, "conflictStrategy", "rename")

\* the options object handed to renameByDate (lines 207-211): an option
\* generateRenamePlan does not have is undefined there too
dateOptionsOf(o) ==
  LET from == [dateType |-> "dateType", format |-> "dateFormat", position |-> "datePosition"]
  IN [k \in {x \in DOMAIN from : from[x] \in DOMAIN o} |-> o[from[k]]]

\* the try block throws (lines 206-212): only the stat of the date rule can
transformThrows(file, o) == Opt(o, "useDate", FALSE) /\ statThrows(file.path)

\* the candidate name of a file: the date rule, then the regex rule
transform(file, o) ==
  LET dated == IF Opt(o, "useDate", FALSE)
               THEN renameByDate(file.name, file.path, dateOptionsOf(o))
               ELSE file.name
  IN IF "regexReplace" \in DOMAIN o THEN regexReplace(dated, o.regexReplace) ELSE dated

emptyPlan(fs) ==
  [originalFiles |-> Len(fs), renamedFiles |-> 0, skippedFiles |-> 0, errorFiles |-> 0,
   renames |-> <<>>, errors |-> <<>>]

\* skipFile without the count
skipFileNoCount(p) == p

\* lines 222-225: the file is not admitted
skipFile(p) == [p EXCEPT !.skippedFiles = @ + 1]

\* admitFile without the comparison with the file's name
admitFileAlways(p, file, resolution) ==
  [p EXCEPT !.renamedFiles = @ + 1,
            !.renames = Append(@, [oldName |-> file.name,
                                   newName |-> resolution.filename,
                                   oldPath |-> file.path,
                                   newPath |-> join(dirname(file.path), resolution.filename)])]

\* lines 227-237, the plan: a resolved name that differs from the file's name
admitFile(p, file, resolution) ==
  IF resolution.filename # file.name
  THEN [p EXCEPT !.renamedFiles = @ + 1,
                 !.renames = Append(@, [oldName |-> file.name,
                                        newName |-> resolution.filename,
                                        oldPath |-> file.path,
                                        newPath |-> join(dirname(file.path), resolution.filename)])]
  ELSE p

\* admitName without the add
admitNameNever(names, file, resolution) == names

\* lines 227-237, the Set: the name is added only when the file is renamed
admitName(names, file, resolution) ==
  IF resolution.filename # file.name THEN names \cup {resolution.filename} ELSE names

\* recordError without the count
recordErrorNoCount(p, file, message) ==
  [p EXCEPT !.errors = Append(@, [file |-> file.name, error |-> message])]

\* lines 238-244: the catch block
recordError(p, file, message) ==
  [p EXCEPT !.errorFiles = @ + 1,
            !.errors = Append(@, [file |-> file.name, error |-> message])]

\* PlanFile without the continue of line 224: a skipped file falls through
\* to the admission
PlanFileNoContinue ==
  /\ pc = "plan"
  /\ pos <= Len(files)
  /\ LET file == files[pos] IN
     IF transformThrows(file, options)
     THEN /\ plan' = recordError(plan, file, "ENOENT")
          /\ UNCHANGED existingNames
     ELSE LET resolution == resolveConflict(transform(file, options), existingNames,
                                            Strategy(options))
              skipped == IF ~resolution.resolved THEN skipFile(plan) ELSE plan
          IN /\ plan' = admitFile(skipped, file, resolution)
             /\ existingNames' = admitName(existingNames, file, resolution)
  /\ pos' = pos + 1
  /\ UNCHANGED <<disk, disk0, files, options, pc, renamed, errors, ret>>

\* one iteration of the for...of loop (lines 201-245)
PlanFile ==
  /\ pc = "plan"
  /\ pos <= Len(files)
  /\ LET file == files[pos] IN
     IF transformThrows(file, options)
     THEN /\ plan' = recordError(plan, file, "ENOENT")
          /\ UNCHANGED existingNames
     ELSE LET resolution == resolveConflict(transform(file, options), existingNames,
                                            Strategy(options))
          IN IF ~resolution.resolved
             THEN /\ plan' = skipFile(plan)
                  /\ UNCHANGED existingNames
             ELSE /\ plan' = admitFile(plan, file, resolution)
                  /\ existingNames' = admitName(existingNames, file, resolution)
  /\ pos' = pos + 1
  /\ UNCHANGED <<disk, disk0, files, options, pc, renamed, errors, ret>>

\* line 247: return plan
PlanReturn ==
  /\ pc = "plan"
  /\ pos > Len(files)
  /\ pc' = "done"
  /\ ret' = plan
  /\ UNCHANGED <<disk, disk0, files, options, pos, plan, existingNames, renamed, errors>>

(***************************************************************************)
(* The inputs of the model.                                                *)
(***************************************************************************)
TXT == <<".", "t", "x", "t">>
NameA == <<"a">> \o TXT
NameB == <<"b">> \o TXT
NameA1 == <<"a", "_", "1">> \o TXT
NameA2 == <<"a", "_", "2">> \o TXT
DirD == <<"d">>
DirE == <<"e">>

\* 2026-02-11 00:00:00 and 2025-12-03 09:05:07
Date1 == <<2, 2026, 1, 11, 0, 0, 0>>
Date2 == <<1, 2025, 11, 3, 9, 5, 7>>

StatsNew == [mtime |-> Date1, atime |-> Date1, birthtime |-> Date2, size |-> 10]
StatsOld == [mtime |-> Date2, atime |-> Date1, birthtime |-> Date2, size |-> 20]

\* the record getFiles pushes for the file name of directory dir (lines 46-50;
\* relativePath is read by nothing)
FileRecord(dir, name) == [name |-> name, path |-> join(dir, name)]

PlanRecords ==
  {FileRecord(DirD, NameA), FileRecord(DirE, NameA), FileRecord(DirD, NameB),
   FileRecord(DirD, NameA1)}

\* the stats of the files of the model: b.txt is the older file
StatsOf(path) == IF basename(path, <<>>) = NameB THEN StatsOld ELSE StatsNew

DiskOf(paths) == [p \in paths |-> StatsOf(p)]

YYYYMMDD == <<"Y", "Y", "Y", "Y", "M", "M", "D", "D">>

StrategyOptions ==
  {NoOptions} \cup {[conflictStrategy |-> s] : s \in {"rename", "skip", "overwrite"}}

BtoA == <<<<"b">>, <<"a">>>>
Invalid == <<<<"(">>, <<"x">>>>

RuleOptions ==
  {NoOptions,
   [useDate |-> TRUE],
   [useDate |-> TRUE, dateType |-> "create", dateFormat |-> YYYYMMDD, datePosition |-> "suffix"],
   [regexReplace |-> <<BtoA>>],
   [regexReplace |-> <<Invalid, BtoA>>],
   [useDate |-> TRUE, regexReplace |-> <<BtoA>>]}

PlanOptions == {s @@ r : s \in StrategyOptions, r \in RuleOptions}

Idle ==
  /\ plan = emptyPlan(<<>>)
  /\ existingNames = {}
  /\ renamed = <<>>
  /\ errors = <<>>
  /\ ret = <<>>

\* generateRenamePlan(files, options) is entered: lines 190-199
InitPlan ==
  /\ files \in SeqsUpTo(PlanRecords, MaxFiles)
  /\ options \in PlanOptions
  /\ \E missing \in {m \in SUBSET {r.path : r \in PlanRecords} : Cardinality(m) <= 1} :
       disk = DiskOf({r.path : r \in PlanRecords} \ missing)
  /\ disk0 = DiskOf({})
  /\ pos = 1
  /\ pc = "plan"
  /\ plan = emptyPlan(files)
  /\ existingNames = {}
  /\ renamed = <<>>
  /\ errors = <<>>
  /\ ret = <<>>

NextPlan == PlanFile \/ PlanReturn

SpecPlan == InitPlan /\ [][NextPlan]_vars


(***************************************************************************)
(* resolveConflict called on its own.                                      *)
(***************************************************************************)
NameNoExt == <<"a">>
NameNoExt1 == <<"a", "_", "1">>

ResolveNames == {NameA, NameA1, NameA2, NameB, NameNoExt, NameNoExt1}

InitResolve ==
  /\ \E filename \in {NameA, NameB, NameNoExt}, names \in SUBSET ResolveNames,
        s \in {NoOptions} \cup {[strategy |-> x] : x \in {"rename", "skip", "overwrite"}} :
       options = [filename |-> filename, names |-> names] @@ s
  /\ files = <<>>
  /\ disk = DiskOf({})
  /\ disk0 = DiskOf({})
  /\ pos = 1
  /\ pc = "resolve"
  /\ Idle

\* resolveConflict(filename, existingNames, strategy), strategy = 'rename'
\* when it is not given (line 155)
ResolveCall ==
  /\ pc = "resolve"
  /\ ret' = resolveConflict(options.filename, options.names, Opt(options, "strategy", "rename"))
  /\ pc' = "resolved"
  /\ UNCHANGED <<disk, disk0, files, options, pos, plan, existingNames, renamed, errors>>

NextResolve == ResolveCall

SpecResolve == InitResolve /\ [][NextResolve]_vars

(***************************************************************************)
(* renameRule and batchRename (src/index.js).                              *)
(***************************************************************************)
\* a string option that is given and not empty
Given(o, key) == key \in DOMAIN o /\ o[key] # <<>>

\* result.replace(/\w\S*/g, txt => txt.charAt(0).toUpperCase() +
\* txt.substr(1).toLowerCase()) from position i on
RECURSIVE titleFrom(_, _)
titleFrom(s, i) ==
  IF i > Len(s) THEN <<>>
  ELSE IF IsWordChar(s[i])
  THEN LET stop == IF \E j \in i..Len(s) : IsSpace(s[j])
                   THEN CHOOSE j \in i..Len(s) :
                          IsSpace(s[j]) /\ \A k \in i..(j - 1) : ~IsSpace(s[k])
                   ELSE Len(s) + 1
       IN <<UpperChar(s[i])>> \o toLowerCase(SubSeq(s, i + 1, stop - 1)) \o titleFrom(s, stop)
  ELSE <<s[i]>> \o titleFrom(s, i + 1)

\* lines 64-68: the replace stage; rule.replace is the sequence of
\* Object.entries(rule.replace)
RECURSIVE replaceStage(_, _)
replaceStage(result, entries) ==
  IF entries = <<>> THEN result
  ELSE replaceStage(RegexReplaceAll(result, Head(entries)[1], Head(entries)[2]), Tail(entries))

\* the sequence stage with the extension left in {name}
sequenceStageWholeName(result, sequence) ==
  LET ext == extname(result)
      numStr == PadStart(ToStr(sequence.start), sequence.padding, "0")
  IN IF Given(sequence, "template")
     THEN ReplaceFirst(ReplaceFirst(sequence.template, <<"{", "n", "}">>, numStr),
                       <<"{", "n", "a", "m", "e", "}">>, result) \o ext
     ELSE numStr \o <<"_">> \o result \o ext

\* lines 83-94: the sequence stage
sequenceStage(result, sequence) ==
  LET ext == extname(result)
      name == basename(result, ext)
      numStr == PadStart(ToStr(sequence.start), sequence.padding, "0")
  IN IF Given(sequence, "template")
     THEN ReplaceFirst(ReplaceFirst(sequence.template, <<"{", "n", "}">>, numStr),
                       <<"{", "n", "a", "m", "e", "}">>, name) \o ext
     ELSE numStr \o <<"_">> \o name \o ext

\* lines 97-111: the case stage
caseStage(result, mode) ==
  CASE mode = "upper" -> toUpperCase(result)
    [] mode = "lower" -> toLowerCase(result)
    [] mode = "title" -> titleFrom(result, 1)
    [] OTHER -> result

\* renameRule throws: new RegExp(from, 'g') of line 66 is not caught
renameRuleThrows(rule) ==
  /\ Given(rule, "replace")
  /\ \E k \in 1..Len(rule.replace) : RegExpThrows(rule.replace[k][1])

renameRule(filename, rule) ==
  LET r1 == IF Given(rule, "replace") THEN replaceStage(filename, rule.replace) ELSE filename
      r2 == IF Given(rule, "prefix") THEN rule.prefix \o r1 ELSE r1
      r3 == IF Given(rule, "suffix")
            THEN basename(r2, extname(r2)) \o rule.suffix \o extname(r2)
            ELSE r2
      r4 == IF "sequence" \in DOMAIN rule THEN sequenceStage(r3, rule.sequence) ELSE r3
  IN IF "case" \in DOMAIN rule THEN caseStage(r4, rule.case) ELSE r4

\* fs.renameSync(oldPath, newPath) on an existing oldPath: rename(2) puts the
\* file at newPath, replacing a file that is there
renameSync(d, oldPath, newPath) ==
  [p \in (DOMAIN d \ {oldPath}) \cup {newPath} |-> IF p = newPath THEN d[oldPath] ELSE d[p]]

\* fs.renameSync throws ENOENT
renameSyncThrows(d, oldPath) == oldPath \notin DOMAIN d

(***************************************************************************)
(* The rename command: lines 209-277.                                      *)
(***************************************************************************)
\* lines 219-227: the extension list
parseExtensions(o) ==
  IF Given(o, "extensions")
  THEN LET items == Split(o.extensions, ",") IN
       [k \in 1..Len(items) |->
          IF ~MatchesAt(items[k], <<".">>, 1) THEN <<".">> \o items[k]
          ELSE toLowerCase(items[k])]
  ELSE <<>>

\* lines 230-237: the sequence rule
parseSequence(text) ==
  LET parts == Split(text, ":") IN
  [start |-> parseIntOr(parts, 1, 1),
   padding |-> parseIntOr(parts, 2, 3),
   template |-> IF Len(parts) >= 3 /\ parts[3] # <<>> THEN parts[3]
                ELSE <<"{", "n", "}", "_", "{", "n", "a", "m", "e", "}">>]

\* lines 240-248: the replace rule, from:to items; an item without from or
\* without to is dropped, a from given again keeps its place and takes the new to
RECURSIVE parseReplace(_, _)
parseReplace(items, replace) ==
  IF items = <<>> THEN replace
  ELSE LET pair == Split(Head(items), ":")
           from == pair[1]
           to == IF Len(pair) >= 2 THEN pair[2] ELSE <<>>
       IN IF from # <<>> /\ to # <<>>
          THEN IF \E k \in 1..Len(replace) : replace[k][1] = from
               THEN parseReplace(Tail(items),
                                 [k \in 1..Len(replace) |->
                                    IF replace[k][1] = from THEN <<from, to>> ELSE replace[k]])
               ELSE parseReplace(Tail(items), Append(replace, <<from, to>>))
          ELSE parseReplace(Tail(items), replace)

\* lines 251-257: the rule; an option that is not given is undefined in it
ruleOf(o) ==
  LET replace == IF Given(o, "replace") THEN parseReplace(Split(o.replace, ","), <<>>)
                 ELSE <<>>
  IN (IF replace # <<>> THEN [replace |-> replace] ELSE NoOptions)
     @@ (IF "prefix" \in DOMAIN o THEN [prefix |-> o.prefix] ELSE NoOptions)
     @@ (IF "suffix" \in DOMAIN o THEN [suffix |-> o.suffix] ELSE NoOptions)
     @@ (IF Given(o, "sequence") THEN [sequence |-> parseSequence(o.sequence)] ELSE NoOptions)
     @@ (IF "case" \in DOMAIN o THEN [case |-> o.case] ELSE NoOptions)

\* fs.existsSync(directory): DirD is there, also when it holds no file;
\* another directory is there when it holds a file or was made by mkdirSync
existsSync(d, directory) ==
  \/ directory = DirD
  \/ directory \in DOMAIN d
  \/ \E p \in DOMAIN d : dirname(p) = directory

\* lines 38-44: the file name item passes the extension filter
passesFilter(item, extensions) ==
  Len(extensions) > 0 => toLowerCase(extname(item)) \in Range(extensions)

\* getFiles(directory, {extensions}) for the order items in which
\* fs.readdirSync lists the directory (the directories of the model hold
\* files only)
RECURSIVE getFiles(_, _, _)
getFiles(directory, items, extensions) ==
  IF items = <<>> THEN <<>>
  ELSE (IF passesFilter(Head(items), extensions)
        THEN <<FileRecord(directory, Head(items))>> ELSE <<>>)
       \o getFiles(directory, Tail(items), extensions)

\* the orders in which fs.readdirSync can list the files of directory
Listings(d, directory) ==
  LET names == {LastSegment(p) : p \in {q \in DOMAIN d : dirname(q) = directory}}
  IN {l \in [1..Cardinality(names) -> names] : \A i, j \in DOMAIN l : i # j => l[i] # l[j]}

\* the dry-run option is not read
DryRunIgnored(o) == FALSE

\* options.dryRun (lines 131, 394, 653)
DryRun(o) == Opt(o, "dryRun", FALSE)

\* lines 210-273: the directory check, the parsing of the options, getFiles
RenameStart ==
  /\ pc = "rename"
  /\ IF ~existsSync(disk, options.directory)
     THEN /\ pc' = "exit"
          /\ ret' = 1
          /\ UNCHANGED files
     ELSE \E items \in Listings(disk, options.directory) :
            /\ files' = getFiles(options.directory, items, parseExtensions(options))
            /\ IF files' = <<>>
               THEN pc' = "exit" /\ ret' = 0
               ELSE pc' = "batch" /\ UNCHANGED ret
  /\ UNCHANGED <<disk, disk0, options, pos, plan, existingNames, renamed, errors>>

\* batchRename, one iteration of the loop of lines 121-147
BatchFile ==
  /\ pc = "batch"
  /\ pos <= Len(files)
  /\ LET file == files[pos]
         rule == ruleOf(options)
         newName == renameRule(file.name, rule)
         newPath == join(dirname(file.path), newName)
         entry == [oldName |-> file.name, newName |-> newName,
                   oldPath |-> file.path, newPath |-> newPath]
     IN IF renameRuleThrows(rule)
        THEN /\ errors' = Append(errors, [file |-> file.name, error |-> "SyntaxError"])
             /\ UNCHANGED <<disk, renamed>>
        ELSE IF newName = file.name
        THEN UNCHANGED <<disk, renamed, errors>>
        ELSE IF DryRun(options)
        THEN /\ renamed' = Append(renamed, entry)
             /\ UNCHANGED <<disk, errors>>
        ELSE IF renameSyncThrows(disk, file.path)
        THEN /\ errors' = Append(errors, [file |-> file.name, error |-> "ENOENT"])
             /\ UNCHANGED <<disk, renamed>>
        ELSE /\ disk' = renameSync(disk, file.path, newPath)
             /\ renamed' = Append(renamed, entry)
             /\ UNCHANGED errors
  /\ pos' = pos + 1
  /\ UNCHANGED <<disk0, files, options, pc, plan, existingNames, ret>>

\* lines 149, 274-276: batchRename returns, printRenameResult counts, the
\* process exits with 1 when there are errors
BatchExit ==
  /\ pc = "batch"
  /\ pos > Len(files)
  /\ pc' = "exit"
  /\ ret' = IF Len(errors) > 0 THEN 1 ELSE 0
  /\ UNCHANGED <<disk, disk0, files, options, pos, plan, existingNames, renamed, errors>>

NameUpper == <<"A", ".", "T", "X", "T">>
NameMd == <<"b", ".", "m", "d">>

RenameNames == {NameA, NameB, NameUpper, NameMd}

Template == <<"{", "n", "}", "_", "{", "n", "a", "m", "e", "}">>
Photo == <<"p", "_", "{", "n", "}">>

SequenceOptions ==
  {<<"1", ":", "3", ":">> \o Template,
   <<"5", ":", "2", ":">> \o Template,
   <<"1", ":", "3", ":">> \o Photo,
   <<"0">>}

\* the rule options of the rename command
RenameRules ==
  {NoOptions,
   [replace |-> <<"a", ":", "b">>],
   [replace |-> <<"(", ":", "x">>],
   [replace |-> <<"a", ":", ",", ".", ":", "-">>],
   [prefix |-> <<"p", "_">>],
   [suffix |-> <<"_", "v", "2">>],
   [case |-> "lower"],
   [case |-> "upper"],
   [case |-> "title"],
   [prefix |-> <<"p", "_">>, suffix |-> <<"_", "v">>, sequence |-> <<"1", ":", "3", ":">> \o Template]}
  \cup {[sequence |-> q] : q \in SequenceOptions}

ExtensionOptions ==
  {NoOptions, [extensions |-> <<"t", "x", "t">>], [extensions |-> <<"T", "X", "T">>],
   [extensions |-> <<".", "T", "X", "T", ",", "m", "d">>]}

RenameOptions ==
  {[directory |-> dir, dryRun |-> dry] @@ r @@ e :
     dir \in {DirD, DirE}, dry \in BOOLEAN, r \in RenameRules, e \in ExtensionOptions}

\* the disks of the model: at most MaxFiles files, all in DirD
Disks(names) ==
  {DiskOf({join(DirD, n) : n \in chosen}) :
     chosen \in {c \in SUBSET names : Cardinality(c) <= MaxFiles}}

InitRename ==
  /\ disk \in Disks(RenameNames)
  /\ disk0 = disk
  /\ options \in RenameOptions
  /\ files = <<>>
  /\ pos = 1
  /\ pc = "rename"
  /\ Idle

NextRename == RenameStart \/ BatchFile \/ BatchExit

SpecRename == InitRename /\ [][NextRename]_vars

(***************************************************************************)
(* Sorting and the rename-date command: lines 336-439.                     *)
(***************************************************************************)
\* a sort that puts the elements the comparator finds equal in the reverse
\* of the order they have in seq
sortTiesReversed(seq, compare) ==
  LET before(j, i) ==
        \/ compare[j, i] < 0
        \/ compare[j, i] = 0 /\ j > i
      rank(i) == 1 + Cardinality({j \in 1..Len(seq) : before(j, i)})
  IN [r \in 1..Len(seq) |-> seq[CHOOSE i \in 1..Len(seq) : rank(i) = r]]

\* seq.sort(comparator) with a consistent comparator, compare[j, i] being
\* comparator(seq[j], seq[i]): a stable sort (ECMAScript 2019,
\* Array.prototype.sort): seq[j] goes before seq[i] when compare[j, i] < 0,
\* and elements the comparator finds equal keep the order they have in seq
stableSort(seq, compare) ==
  LET before(j, i) ==
        \/ compare[j, i] < 0
        \/ compare[j, i] = 0 /\ j < i
      rank(i) == 1 + Cardinality({j \in 1..Len(seq) : before(j, i)})
  IN [r \in 1..Len(seq) |-> seq[CHOOSE i \in 1..Len(seq) : rank(i) = r]]

\* sortBySize(files, order) on files that all exist (lines 104-111)
sortBySize(fs, order) ==
  LET comparator(a, b) ==
        LET sizeA == disk[a.path].size
            sizeB == disk[b.path].size
        IN IF order = "asc" THEN sizeA - sizeB ELSE sizeB - sizeA
  IN stableSort(fs, [j \in 1..Len(fs), i \in 1..Len(fs) |-> comparator(fs[j], fs[i])])

\* sortByDate(files, dateType, order) on files that all exist (lines 120-127)
sortByDate(fs, dateType, order) ==
  LET comparator(a, b) ==
        LET dateA == getFileDate(a.path, dateType)
            dateB == getFileDate(b.path, dateType)
        IN IF order = "asc" THEN getTime(dateA) - getTime(dateB)
           ELSE getTime(dateB) - getTime(dateA)
  IN stableSort(fs, [j \in 1..Len(fs), i \in 1..Len(fs) |-> comparator(fs[j], fs[i])])

\* the order of the characters of the model in the root collation of
\* String.prototype.localeCompare: space, punctuation, digits, letters
Collation ==
  <<" ", "_", "-", ".", "0", "1", "2", "3", "4", "5", "6", "7", "8", "9">> \o LowerLetters

CollationRank(c) == CHOOSE k \in 1..Len(Collation) : Collation[k] = c

\* a.localeCompare(b) for lower-case strings a and b: -1, 0 or 1
RECURSIVE localeCompare(_, _)
localeCompare(a, b) ==
  IF a = <<>> THEN (IF b = <<>> THEN 0 ELSE -1)
  ELSE IF b = <<>> THEN 1
  ELSE IF CollationRank(Head(a)) < CollationRank(Head(b)) THEN -1
  ELSE IF CollationRank(Head(a)) > CollationRank(Head(b)) THEN 1
  ELSE localeCompare(Tail(a), Tail(b))

\* sortByName(files, order) (lines 135-146)
sortByName(fs, order) ==
  LET comparator(a, b) ==
        LET nameA == toLowerCase(a.name)
            nameB == toLowerCase(b.name)
        IN IF order = "asc" THEN localeCompare(nameA, nameB)
           ELSE localeCompare(nameB, nameA)
  IN stableSort(fs, [j \in 1..Len(fs), i \in 1..Len(fs) |-> comparator(fs[j], fs[i])])

\* date.toISOString() of a date whose fields are read in UTC
toISOString(date) ==
  ToStr(getFullYear(date)) \o <<"-">> \o PadStart(ToStr(getMonth(date) + 1), 2, "0")
  \o <<"-">> \o PadStart(ToStr(getDate(date)), 2, "0")
  \o <<"T">> \o PadStart(ToStr(getHours(date)), 2, "0")
  \o <<":">> \o PadStart(ToStr(getMinutes(date)), 2, "0")
  \o <<":">> \o PadStart(ToStr(getSeconds(date)), 2, "0")
  \o <<".", "0", "0", "0", "Z">>

\* the defaults commander gives the options of rename-date (lines 329-331)
dateFormatOption(o) == Opt(o, "format", DefaultFormat)
dateTypeOption(o) == Opt(o, "dateType", "modify")
positionOption(o) == Opt(o, "position", "prefix")

\* lines 376-381: the rule handed to renameByDate as its options
dateRuleOf(o) ==
  [useDate |-> TRUE, dateType |-> dateTypeOption(o), dateFormat |-> dateFormatOption(o),
   datePosition |-> positionOption(o)]

\* lines 337-373: the directory check, the extension list, getFiles, sortByDate
DateStart ==
  /\ pc = "rename-date"
  /\ IF ~existsSync(disk, options.directory)
     THEN /\ pc' = "exit"
          /\ ret' = 1
          /\ UNCHANGED files
     ELSE \E items \in Listings(disk, options.directory) :
            LET found == getFiles(options.directory, items, parseExtensions(options)) IN
            IF found = <<>>
            THEN pc' = "exit" /\ ret' = 0 /\ files' = found
            ELSE /\ files' = sortByDate(found, dateTypeOption(options), "asc")
                 /\ pc' = "dates"
                 /\ UNCHANGED ret
  /\ UNCHANGED <<disk, disk0, options, pos, plan, existingNames, renamed, errors>>

\* one iteration of the loop of lines 386-410
DateFile ==
  /\ pc = "dates"
  /\ pos <= Len(files)
  /\ LET file == files[pos] IN
     IF statThrows(file.path)
     THEN /\ errors' = Append(errors, [file |-> file.name, error |-> "ENOENT"])
          /\ UNCHANGED <<disk, renamed>>
     ELSE LET newName == renameByDate(file.name, file.path, dateRuleOf(options))
              newPath == join(dirname(file.path), newName)
              after == IF DryRun(options) THEN disk ELSE renameSync(disk, file.path, newPath)
          IN IF newName = file.name
             THEN UNCHANGED <<disk, renamed, errors>>
             ELSE /\ disk' = after
                  \* line 402 stats file.path once more, after the rename
                  /\ IF file.path \notin DOMAIN after
                     THEN /\ errors' = Append(errors, [file |-> file.name, error |-> "ENOENT"])
                          /\ UNCHANGED renamed
                     ELSE /\ renamed' =
                               Append(renamed,
                                      [oldName |-> file.name, newName |-> newName,
                                       date |-> toISOString(dateOfStats(after[file.path],
                                                                        dateTypeOption(options)))])
                          /\ UNCHANGED errors
  /\ pos' = pos + 1
  /\ UNCHANGED <<disk0, files, options, pc, plan, existingNames, ret>>

\* lines 413-438: the report and the exit status
DateExit ==
  /\ pc = "dates"
  /\ pos > Len(files)
  /\ pc' = "exit"
  /\ ret' = IF Len(errors) > 0 THEN 1 ELSE 0
  /\ UNCHANGED <<disk, disk0, files, options, pos, plan, existingNames, renamed, errors>>

DateOptions ==
  {[directory |-> dir, dryRun |-> dry] @@ f @@ t @@ p @@ e :
     dir \in {DirD, DirE}, dry \in BOOLEAN,
     f \in {NoOptions, [format |-> YYYYMMDD]},
     t \in {NoOptions, [dateType |-> "create"], [dateType |-> "access"]},
     p \in {NoOptions, [position |-> "prefix"], [position |-> "suffix"]},
     e \in {NoOptions, [extensions |-> <<"t", "x", "t">>]}}

InitDate ==
  /\ disk \in Disks(RenameNames)
  /\ disk0 = disk
  /\ options \in DateOptions
  /\ files = <<>>
  /\ pos = 1
  /\ pc = "rename-date"
  /\ Idle

NextDate == DateStart \/ DateFile \/ DateExit

SpecDate == InitDate /\ [][NextDate]_vars

(***************************************************************************)
(* renameRule(filename, rule) called on its own: lines 60-114.             *)
(***************************************************************************)
NameTwoWords == <<"m", "y", " ", "F", "i", "l", "e", ".", "t", "x", "t">>
NameMixed == <<"a", "B", "_", "c">>

RuleNames == {NameA, NameB, NameUpper, NameTwoWords, NameMixed}

AtoB == <<<<"a">>, <<"b">>>>

\* the rule objects handed to renameRule: those the rename command builds and
\* rule objects written by a caller
Rules ==
  {ruleOf(r) : r \in RenameRules}
  \cup {[replace |-> <<<<<<"(">>, <<"x">>>>, AtoB>>, case |-> "upper"],
        [replace |-> <<<<<<"t">>, <<"s">>>>, AtoB>>],
        [sequence |-> [start |-> 7, padding |-> 2]],
        [sequence |-> [start |-> 1, padding |-> 3, template |-> Template], case |-> "upper"],
        [replace |-> <<AtoB>>, prefix |-> <<"p", "_">>, suffix |-> <<"_", "v">>,
         sequence |-> [start |-> 12, padding |-> 3, template |-> Template], case |-> "upper"],
        [prefix |-> <<"X", "_">>, case |-> "lower"],
        [suffix |-> <<" ", "n", "e", "w">>, case |-> "title"]}

InitRule ==
  /\ options \in {[filename |-> n, rule |-> r] : n \in RuleNames, r \in Rules}
  /\ files = <<>>
  /\ disk = DiskOf({})
  /\ disk0 = DiskOf({})
  /\ pos = 1
  /\ pc = "rule"
  /\ Idle

\* renameRule(filename, rule) returns the new name or throws the SyntaxError
\* of new RegExp (line 66)
RuleCall ==
  /\ pc = "rule"
  /\ IF renameRuleThrows(options.rule)
     THEN pc' = "thrown" /\ UNCHANGED ret
     ELSE pc' = "returned" /\ ret' = renameRule(options.filename, options.rule)
  /\ UNCHANGED <<disk, disk0, files, options, pos, plan, existingNames, renamed, errors>>

\* renameRule called with the same rule on the name it returned
RuleAgain ==
  /\ pc = "returned"
  /\ ret' = renameRule(ret, options.rule)
  /\ pc' = "again"
  /\ UNCHANGED <<disk, disk0, files, options, pos, plan, existingNames, renamed, errors>>

NextRule == RuleCall \/ RuleAgain

SpecRule == InitRule /\ [][NextRule]_vars

(***************************************************************************)
(* The sort-rename command: lines 559-696.                                 *)
(***************************************************************************)
\* the defaults commander gives the options of sort-rename (lines 561-562)
byOption(o) == Opt(o, "by", "name")
orderOption(o) == Opt(o, "order", "asc")

\* lines 570-603: the directory check, the extension list, getFiles
SortStart ==
  /\ pc = "sort-rename"
  /\ IF ~existsSync(disk, options.directory)
     THEN /\ pc' = "exit"
          /\ ret' = 1
          /\ UNCHANGED files
     ELSE \E items \in Listings(disk, options.directory) :
            /\ files' = getFiles(options.directory, items, parseExtensions(options))
            /\ IF files' = <<>>
               THEN pc' = "exit" /\ ret' = 0
               ELSE pc' = "sort" /\ UNCHANGED ret
  /\ UNCHANGED <<disk, disk0, options, pos, plan, existingNames, renamed, errors>>

\* lines 606-619: the files are sorted by name, date or size; another value
\* of --by ends the command with status 1
SortFiles ==
  /\ pc = "sort"
  /\ CASE byOption(options) = "name" ->
            /\ files' = sortByName(files, orderOption(options))
            /\ pc' = "number"
            /\ UNCHANGED ret
       [] byOption(options) = "date" ->
            /\ files' = sortByDate(files, dateTypeOption(options), orderOption(options))
            /\ pc' = "number"
            /\ UNCHANGED ret
       [] byOption(options) = "size" ->
            /\ files' = sortBySize(files, orderOption(options))
            /\ pc' = "number"
            /\ UNCHANGED ret
       [] OTHER ->
            /\ pc' = "exit"
            /\ ret' = 1
            /\ UNCHANGED files
  /\ UNCHANGED <<disk, disk0, options, pos, plan, existingNames, renamed, errors>>

\* one iteration of the loop of lines 625-668, for the file at index pos - 1
NumberFile ==
  /\ pc = "number"
  /\ pos <= Len(files)
  /\ LET file == files[pos]
         ext == extname(file.name)
         name == basename(file.name, ext)
         \* lines 634-647: the name in the case asked for
         cased == IF "case" \in DOMAIN options THEN caseStage(name, options.case) ELSE name
         numStr == PadStart(ToStr(pos), Len(ToStr(Len(files))), "0")
         \* line 651 assigns newName from name: the value of lines 634-647 is
         \* overwritten and read by nothing
         newName == numStr \o <<"_">> \o name \o ext
         newPath == join(dirname(file.path), newName)
     IN IF ~DryRun(options) /\ renameSyncThrows(disk, file.path)
        THEN /\ errors' = Append(errors, [file |-> file.name, error |-> "ENOENT"])
             /\ UNCHANGED <<disk, renamed>>
        ELSE /\ disk' = IF DryRun(options) THEN disk ELSE renameSync(disk, file.path, newPath)
             /\ renamed' = Append(renamed, [oldName |-> file.name, newName |-> newName])
             /\ UNCHANGED errors
  /\ pos' = pos + 1
  /\ UNCHANGED <<disk0, files, options, pc, plan, existingNames, ret>>

\* lines 671-695: the report and the exit status
NumberExit ==
  /\ pc = "number"
  /\ pos > Len(files)
  /\ pc' = "exit"
  /\ ret' = IF Len(errors) > 0 THEN 1 ELSE 0
  /\ UNCHANGED <<disk, disk0, files, options, pos, plan, existingNames, renamed, errors>>

SortOptions ==
  {[directory |-> dir, dryRun |-> dry] @@ b @@ o @@ c @@ e :
     dir \in {DirD, DirE}, dry \in BOOLEAN,
     b \in {NoOptions, [by |-> "date"], [by |-> "size"], [by |-> "type"]},
     o \in {NoOptions, [order |-> "desc"]},
     c \in {NoOptions, [case |-> "upper"], [case |-> "lower"], [case |-> "title"]},
     e \in {NoOptions, [extensions |-> <<"t", "x", "t">>]}}

InitSort ==
  /\ disk \in Disks(RenameNames)
  /\ disk0 = disk
  /\ options \in SortOptions
  /\ files = <<>>
  /\ pos = 1
  /\ pc = "sort-rename"
  /\ Idle

NextSort == SortStart \/ SortFiles \/ NumberFile \/ NumberExit

SpecSort == InitSort /\ [][NextSort]_vars

(***************************************************************************)
(* exportRenamePlan (src/advanced-rules.js lines 256-308) and the          *)
(* export-plan command (src/index.js lines 282-324).                       *)
(***************************************************************************)
JSON == <<"j", "s", "o", "n">>
CSV == <<"c", "s", "v">>
TXTFormat == <<"t", "x", "t">>
XML == <<"x", "m", "l">>

\* the default of the switch of lines 267-305 is reached
formatThrows(format) == toLowerCase(format) \notin {JSON, CSV, TXTFormat}

\* lines 268-301: what the content written for the plan is built from (the
\* text itself is not modelled character by character)
contentOf(p, format) ==
  CASE toLowerCase(format) = JSON -> [format |-> "json", plan |-> p]
    [] toLowerCase(format) = CSV ->
         [format |-> "csv",
          rows |-> <<<<"oldName", "newName", "oldPath", "newPath">>>>
                   \o [k \in 1..Len(p.renames) |->
                         <<p.renames[k].oldName, p.renames[k].newName,
                           p.renames[k].oldPath, p.renames[k].newPath>>]]
    [] OTHER ->
         [format |-> "txt",
          counts |-> <<p.originalFiles, p.renamedFiles, p.skippedFiles, p.errorFiles>>,
          renames |-> [k \in 1..Len(p.renames) |->
                         <<p.renames[k].oldName, p.renames[k].newName>>],
          errors |-> p.errors]

\* fs.mkdirSync(dir, {recursive: true}) when fs.existsSync(dir) is false
\* (lines 260-263)
mkdirSync(d, dir) ==
  IF existsSync(d, dir) THEN d
  ELSE [q \in DOMAIN d \cup {dir} |-> IF q = dir THEN [isDirectory |-> TRUE] ELSE d[q]]

\* fs.writeFileSync(filePath, content, 'utf-8') (line 307)
writeFileSync(d, filePath, content) ==
  [q \in DOMAIN d \cup {filePath} |-> IF q = filePath THEN [content |-> content] ELSE d[q]]

\* the options the command hands to generateRenamePlan (lines 307-309)
ExportPlanOptions == [conflictStrategy |-> "rename"]

\* --format, 'json' when it is not given (line 285)
formatOption(o) == Opt(o, "format", JSON)

\* lines 312-313: the output file
outputFile(o) ==
  Opt(o, "output",
      join(o.directory, <<"r", "e", "n", "a", "m", "e", "-", "p", "l", "a", "n">>)
      \o <<".">> \o formatOption(o))

\* lines 287-307: the directory check, getFiles, and generateRenamePlan is
\* entered (advanced-rules.js lines 190-199)
ExportStart ==
  /\ pc = "export-plan"
  /\ IF ~existsSync(disk, options.directory)
     THEN /\ pc' = "exit"
          /\ ret' = 1
          /\ UNCHANGED <<files, plan>>
     ELSE \E items \in Listings(disk, options.directory) :
            /\ files' = getFiles(options.directory, items, <<>>)
            /\ IF files' = <<>>
               THEN pc' = "exit" /\ ret' = 0 /\ UNCHANGED plan
               ELSE pc' = "generate" /\ plan' = emptyPlan(files') /\ UNCHANGED ret
  /\ UNCHANGED <<disk, disk0, options, pos, existingNames, renamed, errors>>

\* generateRenamePlan(files, {conflictStrategy: 'rename'}), one iteration of
\* the loop of advanced-rules.js lines 201-245
ExportPlanFile ==
  /\ pc = "generate"
  /\ pos <= Len(files)
  /\ LET file == files[pos] IN
     IF transformThrows(file, ExportPlanOptions)
     THEN /\ plan' = recordError(plan, file, "ENOENT")
          /\ UNCHANGED existingNames
     ELSE LET resolution == resolveConflict(transform(file, ExportPlanOptions), existingNames,
                                            Strategy(ExportPlanOptions))
          IN IF ~resolution.resolved
             THEN /\ plan' = skipFile(plan)
                  /\ UNCHANGED existingNames
             ELSE /\ plan' = admitFile(plan, file, resolution)
                  /\ existingNames' = admitName(existingNames, file, resolution)
  /\ pos' = pos + 1
  /\ UNCHANGED <<disk, disk0, files, options, pc, renamed, errors, ret>>

\* the plan is returned and exportRenamePlan(plan, outputFile, format) runs
\* (lines 316-323): the directory of the output file is made when it is not
\* there, then the format is looked at; an unsupported format throws, which
\* the command reports before it exits with status 1
ExportWrite ==
  /\ pc = "generate"
  /\ pos > Len(files)
  /\ LET filePath == outputFile(options)
         made == mkdirSync(disk, dirname(filePath))
     IN IF formatThrows(formatOption(options))
        THEN /\ disk' = made
             /\ errors' = Append(errors, [file |-> filePath, error |-> "UnsupportedFormat"])
             /\ ret' = 1
        ELSE /\ disk' = writeFileSync(made, filePath, contentOf(plan, formatOption(options)))
             /\ ret' = 0
             /\ UNCHANGED errors
  /\ pc' = "exit"
  /\ UNCHANGED <<disk0, files, options, pos, plan, existingNames, renamed>>

OutputO == <<"o", "/", "p", "l", "a", "n">>

ExportOptions ==
  {[directory |-> dir] @@ f @@ o :
     dir \in {DirD, DirE},
     f \in {NoOptions} \cup {[format |-> x] : x \in {CSV, TXTFormat, XML, <<"J", "S", "O", "N">>}},
     o \in {NoOptions, [output |-> OutputO], [output |-> join(DirD, NameA)]}}

InitExport ==
  /\ disk \in Disks(RenameNames)
  /\ disk0 = disk
  /\ options \in ExportOptions
  /\ files = <<>>
  /\ pos = 1
  /\ pc = "export-plan"
  /\ Idle

NextExport == ExportStart \/ ExportPlanFile \/ ExportWrite

SpecExport == InitExport /\ [][NextExport]_vars

(***************************************************************************)
(* resolveConflict with its do...while loop taken one iteration at a time  *)
(* (src/advanced-rules.js lines 155-181), called on its own or by          *)
(* generateRenamePlan (lines 189-248).                                     *)
(***************************************************************************)
\* lines 156-174: resolveConflict returns at once, or enters the loop with
\* counter = 1
enterResolve(filename, names, strategy) ==
  IF filename \notin names \/ strategy \in {"skip", "overwrite"}
  THEN [pc |-> "resolved", ret |-> resolveConflict(filename, names, strategy)]
  ELSE [pc |-> "loop",
        ret |-> [name |-> basename(filename, extname(filename)),
                 ext |-> extname(filename), counter |-> 1]]

\* resolveConflict(filename, existingNames, strategy) is called on its own
CallEnter ==
  /\ pc = "call"
  /\ LET entered == enterResolve(options.filename, existingNames,
                                 Opt(options, "strategy", "rename"))
     IN pc' = entered.pc /\ ret' = entered.ret
  /\ UNCHANGED <<disk, disk0, files, options, pos, plan, existingNames, renamed, errors>>

\* generateRenamePlan, lines 201-216: the candidate name of the file at pos,
\* then resolveConflict is called; a throw is caught by lines 238-244 and
\* the loop of generateRenamePlan goes on
FileEnter ==
  /\ pc = "file"
  /\ pos <= Len(files)
  /\ LET file == files[pos] IN
     IF transformThrows(file, options)
     THEN /\ plan' = recordError(plan, file, "ENOENT")
          /\ pos' = pos + 1
          /\ UNCHANGED <<pc, ret>>
     ELSE LET entered == enterResolve(transform(file, options), existingNames,
                                      Strategy(options))
          IN /\ pc' = entered.pc
             /\ ret' = entered.ret
             /\ UNCHANGED <<plan, pos>>
  /\ UNCHANGED <<disk, disk0, files, options, existingNames, renamed, errors>>

\* LoopBody without the counter++ of line 177
LoopBodySameCounter ==
  /\ pc = "loop"
  /\ LET newFilename == ret.name \o <<"_">> \o ToStr(ret.counter) \o ret.ext IN
     IF newFilename \in existingNames
     THEN UNCHANGED <<pc, ret>>
     ELSE /\ pc' = "resolved"
          /\ ret' = [filename |-> newFilename, conflict |-> TRUE, resolved |-> TRUE]
  /\ UNCHANGED <<disk, disk0, files, options, pos, plan, existingNames, renamed, errors>>

\* one iteration of the do...while loop of lines 175-178, and the return of
\* line 180 when the loop ends
LoopBody ==
  /\ pc = "loop"
  /\ LET newFilename == ret.name \o <<"_">> \o ToStr(ret.counter) \o ret.ext IN
     IF newFilename \in existingNames
     THEN /\ ret' = [ret EXCEPT !.counter = @ + 1]
          /\ UNCHANGED pc
     ELSE /\ pc' = "resolved"
          /\ ret' = [filename |-> newFilename, conflict |-> TRUE, resolved |-> TRUE]
  /\ UNCHANGED <<disk, disk0, files, options, pos, plan, existingNames, renamed, errors>>

\* the call made on its own has returned
CallReturn ==
  /\ pc = "resolved"
  /\ "filename" \in DOMAIN options
  /\ pc' = "done"
  /\ UNCHANGED <<disk, disk0, files, options, pos, plan, existingNames, renamed, errors, ret>>

\* generateRenamePlan, lines 218-237: the resolution is counted, and the
\* loop goes on to the next file
FileAdmit ==
  /\ pc = "resolved"
  /\ "filename" \notin DOMAIN options
  /\ LET file == files[pos] IN
     IF ~ret.resolved
     THEN /\ plan' = skipFile(plan)
          /\ UNCHANGED existingNames
     ELSE /\ plan' = admitFile(plan, file, ret)
          /\ existingNames' = admitName(existingNames, file, ret)
  /\ pos' = pos + 1
  /\ pc' = "file"
  /\ ret' = <<>>
  /\ UNCHANGED <<disk, disk0, files, options, renamed, errors>>

\* line 247: return plan
FileReturn ==
  /\ pc = "file"
  /\ pos > Len(files)
  /\ pc' = "done"
  /\ ret' = plan
  /\ UNCHANGED <<disk, disk0, files, options, pos, plan, existingNames, renamed, errors>>

LoopRecords == {FileRecord(DirD, NameA), FileRecord(DirE, NameA), FileRecord(DirD, NameB)}

LoopOptions ==
  {s @@ r : s \in StrategyOptions,
            r \in {NoOptions, [regexReplace |-> <<BtoA>>], [useDate |-> TRUE]}}

\* resolveConflict is called with a file name, a set of names and a
\* strategy, or generateRenamePlan is entered (lines 190-199)
InitLoop ==
  /\ \/ /\ \E filename \in {NameA, NameB, NameNoExt}, names \in SUBSET ResolveNames,
              s \in {NoOptions} \cup {[strategy |-> x] : x \in {"rename", "skip", "overwrite"}} :
             /\ options = [filename |-> filename, names |-> names] @@ s
             /\ existingNames = names
        /\ files = <<>>
        /\ disk = DiskOf({})
        /\ plan = emptyPlan(<<>>)
        /\ pc = "call"
     \/ /\ files \in SeqsUpTo(LoopRecords, MaxFiles)
        /\ options \in LoopOptions
        \* with the date rule none of the files is there, and every stat throws
        /\ disk = IF Opt(options, "useDate", FALSE) THEN DiskOf({})
                  ELSE DiskOf({r.path : r \in LoopRecords})
        /\ plan = emptyPlan(files)
        /\ existingNames = {}
        /\ pc = "file"
  /\ disk0 = DiskOf({})
  /\ pos = 1
  /\ renamed = <<>>
  /\ errors = <<>>
  /\ ret = <<>>

NextLoop == CallEnter \/ FileEnter \/ LoopBody \/ CallReturn \/ FileAdmit \/ FileReturn

\* every step that can be taken is taken: the program runs on until it returns
SpecLoop == InitLoop /\ [][NextLoop]_vars /\ WF_vars(NextLoop)

(***************************************************************************)
(* Properties of generateRenamePlan, checked under SpecPlan.               *)
(***************************************************************************)
DistinctNewNames(renames) ==
  \A i, j \in 1..Len(renames) : i # j => renames[i].newName # renames[j].newName

InLoop == pc = "plan" /\ pos <= Len(files)

\* C1 as stated: whatever the strategy, the newName values of plan.renames
\* are pairwise distinct.
C1_DistinctUnderEveryStrategy == DistinctNewNames(plan.renames)

\* C1, amended: under the strategies rename (also when none is given) and
\* skip, the newName values of plan.renames are pairwise distinct at every
\* point of the planning pass; overwrite admits a name a second time.
C1_DistinctUnlessOverwrite ==
  Strategy(options) # "overwrite" => DistinctNewNames(plan.renames)

\* two files whose candidate names collided were both renamed, under rename
C1_Witness ==
  /\ pc = "done"
  /\ Strategy(options) = "rename"
  /\ Len(plan.renames) = 2
  /\ plan.renames[1].oldName = NameB
  /\ plan.renames[2].oldName = NameB
  /\ plan.renames[1].newName = NameA
  /\ plan.renames[2].newName = NameA1

NoRule(o) == ~Opt(o, "useDate", FALSE) /\ "regexReplace" \notin DOMAIN o

\* C2: with strategy rename and no date or regex rule, the batch
\* [b.txt, a.txt, a.txt] yields exactly one rename, of the second a.txt to
\* a_1.txt, with renamedFiles = 1 and skippedFiles = 0; in general the later
\* of two records of one name is renamed.
C2_LaterFileSeesEarlierName ==
  (/\ pc = "done"
   /\ Strategy(options) = "rename"
   /\ NoRule(options)
   /\ Len(files) = 3
   /\ files[1].name = NameB /\ files[2].name = NameA /\ files[3].name = NameA
   /\ files[2].path # files[3].path)
  => /\ Len(plan.renames) = 1
     /\ plan.renames[1].oldName = NameA
     /\ plan.renames[1].newName = NameA1
     /\ plan.renames[1].oldPath = files[3].path
     /\ plan.renamedFiles = 1
     /\ plan.skippedFiles = 0

\* C7: under skip, a file whose candidate name is in seenNames is not
\* admitted: resolveConflict leaves it unresolved, the step adds one to
\* skippedFiles, leaves renamedFiles, errorFiles, renames, errors and
\* seenNames as they were, and the loop goes on to the next file.
C7_SkipNotAdmitted ==
  [][(/\ InLoop
      /\ Strategy(options) = "skip"
      /\ ~transformThrows(files[pos], options)
      /\ transform(files[pos], options) \in existingNames)
     => /\ ~resolveConflict(transform(files[pos], options), existingNames, "skip").resolved
        /\ plan' = [plan EXCEPT !.skippedFiles = plan.skippedFiles + 1]
        /\ existingNames' = existingNames
        /\ pos' = pos + 1
        /\ pc' = "plan"]_vars

\* a file was skipped and the loop is at a later file
C7_Witness ==
  /\ InLoop
  /\ Strategy(options) = "skip"
  /\ plan.skippedFiles = 1
  /\ plan.renamedFiles = 1
  /\ existingNames = {plan.renames[1].newName}

\* C8: at every point of the loop and in the returned plan,
\* renamedFiles + skippedFiles + errorFiles <= originalFiles, the length of
\* the batch.
C8_CountsBounded ==
  /\ plan.originalFiles = Len(files)
  /\ plan.renamedFiles + plan.skippedFiles + plan.errorFiles <= plan.originalFiles
  /\ pc = "done" => ret = plan

\* a returned plan of a batch of three with a renamed, a skipped and a failed file
C8_Witness ==
  /\ pc = "done"
  /\ Len(files) = 3
  /\ plan.renamedFiles = 1
  /\ plan.skippedFiles = 1
  /\ plan.errorFiles = 1

UnchangedName == ~transformThrows(files[pos], options)
                 /\ transform(files[pos], options) = files[pos].name

Untouched ==
  /\ plan'.renamedFiles = plan.renamedFiles
  /\ plan'.skippedFiles = plan.skippedFiles
  /\ plan'.renames = plan.renames

\* C9 as stated: for every strategy, a file whose transform yields its own
\* name changes neither renamedFiles nor skippedFiles nor renames.
C9_UnchangedNameNeverCounted ==
  [][(InLoop /\ UnchangedName) => Untouched]_vars

\* C9, amended: a file whose transform yields its own name changes neither
\* renamedFiles nor skippedFiles nor renames when that name is not in
\* seenNames or the strategy is overwrite; when the name is in seenNames
\* the file is skipped under skip and renamed under rename.
C9_UnchangedNameNotCounted ==
  [][(InLoop /\ UnchangedName)
     => IF files[pos].name \notin existingNames \/ Strategy(options) = "overwrite"
        THEN Untouched /\ plan'.errorFiles = plan.errorFiles
        ELSE IF Strategy(options) = "skip"
        THEN plan'.skippedFiles = plan.skippedFiles + 1 /\ plan'.renames = plan.renames
        ELSE /\ plan'.renamedFiles = plan.renamedFiles + 1
             /\ Len(plan'.renames) = Len(plan.renames) + 1]_vars

\* under overwrite, b.txt was renamed to a.txt and the file a.txt after it,
\* whose transform yields a.txt, was left out of the plan
C9_Witness ==
  /\ pos = 3
  /\ Strategy(options) = "overwrite"
  /\ files[1].name = NameB
  /\ files[2].name = NameA
  /\ existingNames = {NameA}
  /\ plan.renamedFiles = 1
  /\ plan.skippedFiles = 0
  /\ Len(plan.renames) = 1

\* C10: a file whose processing throws adds one entry {file, error} to
\* plan.errors and one to errorFiles, leaves renames, renamedFiles,
\* skippedFiles and seenNames as they were, and the loop goes on: the plan
\* is returned only after the last file of the batch.
C10_ErrorIsolated ==
  [][/\ (InLoop /\ transformThrows(files[pos], options))
        => /\ plan' = [plan EXCEPT !.errorFiles = plan.errorFiles + 1,
                                   !.errors = Append(plan.errors,
                                                     [file |-> files[pos].name,
                                                      error |-> "ENOENT"])]
           /\ existingNames' = existingNames
           /\ pos' = pos + 1
           /\ pc' = "plan"
     /\ pc' = "done" => (pc = "plan" /\ pos = Len(files) + 1)]_vars

\* the first file of three failed and the two after it were renamed
C10_Witness ==
  /\ pc = "done"
  /\ Len(files) = 3
  /\ transformThrows(files[1], options)
  /\ plan.errorFiles = 1
  /\ Len(plan.errors) = 1
  /\ plan.renamedFiles = 2

(***************************************************************************)
(* Properties of resolveConflict, checked under SpecResolve.               *)
(***************************************************************************)
\* <base>_k<ext> for the name <base><ext>
Suffixed(filename, k) ==
  basename(filename, extname(filename)) \o <<"_">> \o ToStr(k) \o extname(filename)

\* C6: with strategy rename, or none, and a candidate that is in seenNames,
\* resolveConflict returns <base>_k<ext>, conflict and resolved, for the
\* smallest k >= 1 whose <base>_k<ext> is not in seenNames; a.txt against
\* {a.txt, a_1.txt} gives a_2.txt.
C6_SmallestFreeSuffix ==
  (/\ pc = "resolved"
   /\ Opt(options, "strategy", "rename") = "rename"
   /\ options.filename \in options.names)
  => /\ ret.conflict
     /\ ret.resolved
     /\ \E k \in 1..(Cardinality(options.names) + 1) :
          /\ ret.filename = Suffixed(options.filename, k)
          /\ ret.filename \notin options.names
          /\ \A j \in 1..(k - 1) : Suffixed(options.filename, j) \in options.names
     /\ (options.filename = NameA /\ options.names = {NameA, NameA1})
        => ret.filename = <<"a", "_", "2", ".", "t", "x", "t">>

\* a.txt against {a.txt, a_1.txt} with no strategy given returned a_2.txt
C6_Witness ==
  /\ pc = "resolved"
  /\ "strategy" \notin DOMAIN options
  /\ options.filename = NameA
  /\ options.names = {NameA, NameA1}
  /\ ret.filename = NameA2

(***************************************************************************)
(* Properties of the rename command, checked under SpecRename.             *)
(***************************************************************************)
InBatch == pc = "batch" /\ pos <= Len(files)

\* the path batchRename computes for the file at pos
NewPathAt(k) == join(dirname(files[k].path), renameRule(files[k].name, ruleOf(options)))

\* C3: without dry-run, a file whose new path is the path of another file
\* that exists at that moment is skipped or recorded in errors and the
\* directory is left as it is: no step of the batch changes the number of
\* files of the directory.
C3_NeverRenamedOntoExistingFile ==
  [][(InBatch /\ ~DryRun(options))
     => /\ (/\ ~renameRuleThrows(ruleOf(options))
            /\ NewPathAt(pos) # files[pos].path
            /\ NewPathAt(pos) \in DOMAIN disk)
           => (disk' = disk /\ renamed' = renamed)
        /\ Cardinality(DOMAIN disk') = Cardinality(DOMAIN disk)]_vars

\* the number written with padding digits, as the claim's 001, 002, ...
Numbered(n, padding) == PadStart(ToStr(n), padding, "0")

SequenceOnly(o) ==
  /\ Given(o, "sequence")
  /\ DOMAIN o \cap {"replace", "prefix", "suffix", "case"} = {}
  /\ Len(Split(o.sequence, ":")) = 3
  /\ ruleOf(o).sequence.template = Template

\* C4: with --sequence start:padding:{n}_{name} the file processed i-th
\* (i from 0) is named with the number start + i, zero-padded, so the
\* numbers of one batch are consecutive and pairwise different.
C4_ConsecutiveNumbers ==
  (pc = "exit" /\ SequenceOnly(options) /\ Len(renamed) = Len(files))
  => \A k \in 1..Len(files) :
       renamed[k].newName =
         Numbered(ruleOf(options).sequence.start + k - 1, ruleOf(options).sequence.padding)
         \o <<"_">> \o basename(files[k].name, extname(files[k].name))
         \o extname(files[k].name)

(***************************************************************************)
(* Properties of the rename-date command, checked under SpecDate.          *)
(***************************************************************************)
\* the name the options of the command ask for, for the file oldName of the
\* directory as the command found it
DatedName(oldName, o) ==
  LET ext == extname(oldName)
      base == basename(oldName, ext)
      stats == disk0[join(o.directory, oldName)]
      dateStr == formatDate(dateOfStats(stats, dateTypeOption(o)), dateFormatOption(o))
  IN IF positionOption(o) = "suffix" THEN base \o <<"_">> \o dateStr \o ext
     ELSE dateStr \o <<"_">> \o base \o ext

\* C5: the --format and --position options decide the new name: every file
\* the command renames (reported in renamed, or moved on disk without
\* dry-run) is named <base>_<date in the format><ext> with -p suffix and
\* <date in the format>_<base><ext> with -p prefix.
C5_FormatAndPositionDecideName ==
  pc = "exit"
  => /\ \A k \in 1..Len(renamed) :
          renamed[k].newName = DatedName(renamed[k].oldName, options)
     /\ ~DryRun(options)
        => \A k \in 1..Len(files) :
             join(options.directory, DatedName(files[k].name, options)) \in DOMAIN disk

(***************************************************************************)
(* Properties of renameRule, checked under SpecRule.                       *)
(***************************************************************************)
\* the rule without the replace entries whose pattern does not compile
WithoutInvalid(rule) ==
  IF "replace" \in DOMAIN rule
  THEN [rule EXCEPT !.replace = SelectSeq(rule.replace, LAMBDA e : ~RegExpThrows(e[1]))]
  ELSE rule

\* C11: renameRule never throws: a replace pattern that does not compile is
\* skipped, and the name returned is the one the remaining patterns and
\* stages give.
C11_RenameRuleNeverThrows ==
  /\ pc # "thrown"
  /\ pc = "returned" => ret = renameRule(options.filename, WithoutInvalid(options.rule))

CaseOnly(rule) == DOMAIN rule = {"case"} /\ rule.case \in {"upper", "lower", "title"}

\* C16: with a rule that has only a case mode, renameRule applied to the name
\* it returned gives that name again.
C16_CaseIdempotent ==
  [][(pc = "returned" /\ pc' = "again" /\ CaseOnly(options.rule)) => ret' = ret]_vars

\* a case-only rule has changed the name, and renameRule has run on the result
C16_Witness ==
  /\ pc = "again"
  /\ CaseOnly(options.rule)
  /\ options.rule.case = "title"
  /\ options.filename = NameTwoWords
  /\ ret = <<"M", "y", " ", "F", "i", "l", "e", ".", "t", "x", "t">>

\* every occurrence of the exact string from in s, left to right, becomes to
RECURSIVE LiteralFrom(_, _, _, _)
LiteralFrom(s, from, to, i) ==
  IF i > Len(s) THEN <<>>
  ELSE IF MatchesAt(s, from, i) THEN to \o LiteralFrom(s, from, to, i + Len(from))
  ELSE <<s[i]>> \o LiteralFrom(s, from, to, i + 1)

RECURSIVE LiteralStage(_, _)
LiteralStage(s, entries) ==
  IF entries = <<>> THEN s
  ELSE LiteralStage(LiteralFrom(s, Head(entries)[1], Head(entries)[2], 1), Tail(entries))

\* C17: the replace stage is a literal substitution: with a rule that has
\* only replace entries, the name returned is the file name with every
\* occurrence of each exact string from, and nothing else, replaced by its to.
C17_ReplaceIsLiteral ==
  (pc = "returned" /\ DOMAIN options.rule = {"replace"})
    => ret = LiteralStage(options.filename, options.rule.replace)

\* no pattern of the rule has a character that is special in a regular expression
LiteralPatterns(rule) ==
  "replace" \in DOMAIN rule =>
    \A k \in 1..Len(rule.replace) : \A c \in Range(rule.replace[k][1]) : c \notin {".", "("}

\* the position of the dot that starts the extension of s, Len(s) + 1 if s has none
ExtensionAt(s) == IF LastIndexOfChar(s, ".") <= 1 THEN Len(s) + 1 ELSE LastIndexOfChar(s, ".")

StageReplace(s, rule) == IF "replace" \in DOMAIN rule THEN LiteralStage(s, rule.replace) ELSE s

StagePrefix(s, rule) == IF "prefix" \in DOMAIN rule THEN rule.prefix \o s ELSE s

StageSuffix(s, rule) ==
  IF "suffix" \in DOMAIN rule
  THEN SubSeq(s, 1, ExtensionAt(s) - 1) \o rule.suffix \o SubSeq(s, ExtensionAt(s), Len(s))
  ELSE s

StageSequence(s, rule) ==
  IF "sequence" \in DOMAIN rule
  THEN LET n == PadStart(ToStr(rule.sequence.start), rule.sequence.padding, "0")
           name == SubSeq(s, 1, ExtensionAt(s) - 1)
           template == Opt(rule.sequence, "template", Template)
       IN ReplaceFirst(ReplaceFirst(template, <<"{", "n", "}">>, n),
                       <<"{", "n", "a", "m", "e", "}">>, name)
          \o SubSeq(s, ExtensionAt(s), Len(s))
  ELSE s

StageCase(s, rule) ==
  IF "case" \in DOMAIN rule
  THEN CASE rule.case = "upper" -> [k \in 1..Len(s) |-> UpperChar(s[k])]
         [] rule.case = "lower" -> [k \in 1..Len(s) |-> LowerChar(s[k])]
         [] OTHER -> titleFrom(s, 1)
  ELSE s

ChangedSoFar ==
  {k \in 1..(pos - 1) : renameRule(files[k].name, ruleOf(options)) # files[k].name}

\* the entry batchRename reports for files[k]
EntryOf(k) ==
  LET newName == renameRule(files[k].name, ruleOf(options)) IN
  [oldName |-> files[k].name, newName |-> newName, oldPath |-> files[k].path,
   newPath |-> join(dirname(files[k].path), newName)]

\* C13: with dry-run, batchRename changes nothing on the disk, and renamed
\* holds, in the order of the files, one {oldName, newName, oldPath, newPath}
\* entry for every file whose computed name differs from its current name.
C13_DryRunReportsWithoutRenaming ==
  ("dryRun" \in DOMAIN options /\ options.dryRun) =>
    /\ disk = disk0
    /\ (pc \in {"batch", "exit"} /\ ~renameRuleThrows(ruleOf(options))) =>
         /\ Len(renamed) = Cardinality(ChangedSoFar)
         /\ \A k \in ChangedSoFar :
              renamed[Cardinality({j \in ChangedSoFar : j <= k})] = EntryOf(k)

\* a dry run has ended with one file reported and one file left out because
\* its name does not change
C13_Witness ==
  /\ pc = "exit"
  /\ "dryRun" \in DOMAIN options /\ options.dryRun
  /\ Len(files) = 2
  /\ Len(renamed) = 1
  /\ renamed[1].oldName = files[2].name
  /\ renamed[1].newPath \in DOMAIN disk
  /\ errors = <<>>

\* a supplied extension in lower case, with its leading dot
Normalized(e) == toLowerCase(IF MatchesAt(e, <<".">>, 1) THEN e ELSE <<".">> \o e)

\* the file names of the directory that the claim's filter keeps
KeptByClaim ==
  LET names == {LastSegment(p) : p \in {q \in DOMAIN disk0 : dirname(q) = options.directory}}
      supplied == Range(Split(options.extensions, ","))
  IN {n \in names : toLowerCase(extname(n)) \in {Normalized(e) : e \in supplied}}

\* C15: the extension filter is case-insensitive from the command line to
\* getFiles: once the rename command has listed the directory, the files it
\* goes on with are the files whose lower-cased extension is the lower-cased
\* form of a supplied extension, given with or without its dot, in upper or
\* lower case.
C15_FilterIgnoresCase ==
  (pc \in {"batch", "exit"} /\ Given(options, "extensions")
     /\ existsSync(disk0, options.directory))
    => {files[k].name : k \in 1..Len(files)} = KeptByClaim

(***************************************************************************)
(* Properties of the rename-date command, checked under SpecDate.          *)
(***************************************************************************)
\* files[k] is no longer at its path and a file is at the path of its new name
RenamedOnDisk(k) ==
  /\ files[k].path \notin DOMAIN disk
  /\ \E p \in DOMAIN disk \ DOMAIN disk0 : dirname(p) = dirname(files[k].path)

\* C20: in rename-date without dry-run, a file that was renamed on the disk
\* is listed in renamed and is not in errors, and when every rename has
\* succeeded the error count is 0 and the exit status is 0.
C20_RenamedFilesAreReported ==
  (pc = "exit" /\ ~DryRun(options) /\ Len(files) > 0) =>
    /\ \A k \in 1..Len(files) :
         RenamedOnDisk(k) =>
           /\ \E i \in 1..Len(renamed) : renamed[i].oldName = files[k].name
           /\ \A i \in 1..Len(errors) : errors[i].file # files[k].name
    /\ (\A k \in 1..Len(files) : RenamedOnDisk(k)) => (Len(errors) = 0 /\ ret = 0)

(***************************************************************************)
(* Properties of the sort-rename command, checked under SpecSort.          *)
(***************************************************************************)
\* the files a and b have the same sort key under the --by of the command
SameKey(a, b) ==
  CASE byOption(options) = "name" -> toLowerCase(a.name) = toLowerCase(b.name)
    [] byOption(options) = "date" ->
         getTime(getFileDate(a.path, dateTypeOption(options)))
           = getTime(getFileDate(b.path, dateTypeOption(options)))
    [] OTHER -> disk[a.path].size = disk[b.path].size

PositionIn(seq, x) == CHOOSE k \in 1..Len(seq) : seq[k] = x

\* sorted holds the elements of listed, those of equal key in the order they
\* have in listed
KeepsTies(listed, sorted) ==
  /\ Len(sorted) = Len(listed)
  /\ Range(sorted) = Range(listed)
  /\ \A i, j \in 1..Len(listed) :
       (i < j /\ SameKey(listed[i], listed[j]))
         => PositionIn(sorted, listed[i]) < PositionIn(sorted, listed[j])

\* C14: sortBySize, sortByDate and sortByName are stable in ascending and in
\* descending order: files with equal keys keep, after the sort, the order
\* they had in the list that was sorted.
C14_SortsAreStable ==
  [][(pc = "sort" /\ pc' = "number") => KeepsTies(files, files')]_vars

\* a descending sort by size has put the larger file first and left two
\* files of equal size behind it
C14_Witness ==
  /\ pc = "number"
  /\ pos = 1
  /\ byOption(options) = "size"
  /\ orderOption(options) = "desc"
  /\ Len(files) = 3
  /\ files[1].name = NameB
  /\ SameKey(files[2], files[3])

\* C19: in sort-rename with --case, the base-name part of every new name
\* <number>_<name><ext> is the base name of the file in the case asked for.
C19_CaseAppliedToNewNames ==
  (pc \in {"number", "exit"} /\ "case" \in DOMAIN options) =>
    \A i \in 1..Len(renamed) :
      LET ext == extname(renamed[i].oldName)
          name == basename(renamed[i].oldName, ext)
      IN renamed[i].newName
           = PadStart(ToStr(i), Len(ToStr(Len(files))), "0") \o <<"_">>
             \o caseStage(name, options.case) \o ext

(***************************************************************************)
(* Properties of the export-plan command, checked under SpecExport.        *)
(***************************************************************************)
\* C12: an unsupported export format is a configuration-level error that is
\* reported and ends the command before any file processing begins: when
\* the command has ended on it, no plan has been generated over the files,
\* no output directory has been made and no file has been renamed.
C12_FormatErrorBeforeProcessing ==
  (pc = "exit" /\ Len(errors) > 0 /\ formatThrows(formatOption(options))) =>
    /\ pos = 1
    /\ plan = emptyPlan(<<>>)
    /\ disk = disk0

(***************************************************************************)
(* Properties of the loop of resolveConflict, checked under SpecLoop.      *)
(***************************************************************************)
\* the seen names resolveConflict was called with: the set handed to the
\* call made on its own, or in generateRenamePlan the new names of the
\* renames admitted so far
SeenNamesGiven ==
  IF "filename" \in DOMAIN options THEN options.names
  ELSE {plan.renames[k].newName : k \in 1..Len(plan.renames)}

\* C21: resolveConflict terminates for every candidate name, set of seen
\* names and strategy: under rename the loop is in its k-th iteration only
\* for k <= |seenNames| + 1, seenNames is throughout the call the set the
\* call was given, and generateRenamePlan, which goes through the files
\* one by one, returns when it is just past the last one.
C21_ResolveConflictTerminates ==
  /\ [](/\ pc = "loop" => ret.counter <= Cardinality(existingNames) + 1
        /\ existingNames = SeenNamesGiven
        /\ pos <= Len(files) + 1
        /\ pc = "done" => pos = Len(files) + 1)
  /\ <>(pc = "done")

\* a.txt against six seen names, a_1.txt and a_2.txt among them: the loop
\* ended in its third iteration and the call returned a_3.txt
C21_Witness ==
  /\ pc = "done"
  /\ "filename" \in DOMAIN options
  /\ options.filename = NameA
  /\ existingNames = ResolveNames
  /\ ret.filename = <<"a", "_", "3", ".", "t", "x", "t">>

=============================================================================
